---- MODULE Spec2Model ----
(***************************************************************************)
(* katomaran-taskflow: the task service (TaskService, localStorage         *)
(* persistence), the useTasks hook that drives it, and the query           *)
(* (filter / sort / statistics) functions.                                 *)
(*                                                                         *)
(* Strings are sequences of UTF-16 code units (naturals), so toLowerCase,  *)
(* includes, trim and the < of the sort comparator are computed, not       *)
(* assumed.  Dates are integers (milliseconds); what is written to         *)
(* localStorage is the JSON form, in which a Date is an ISO-8601 string,   *)
(* modelled by its two numeric parts.  A promise continuation is an entry  *)
(* of the microtask queue, which is served first-in first-out.             *)
(***************************************************************************)
EXTENDS Integers, Sequences, FiniteSets, TLC

VARIABLES
    storage,    \* localStorage item 'todo_tasks'
    userItem,   \* localStorage item 'todo_user_id' ("" when there is none)
    authUser,   \* localStorage items 'todo_user' and 'todo_token': the id of the
                \* signed-in user ("" when nobody is signed in)
    now,        \* the wall clock, Date.now()
    tasks,      \* useTasks: the visible collection
    filters,    \* useTasks: the active filters
    isLoading,  \* useTasks: loading flag
    error,      \* useTasks: last error message ("" is undefined)
    queue,      \* pending promise continuations (microtasks), oldest first
    settled,    \* what the most recently settled hook operation returned
    last,       \* the most recent TaskService call and its outcome
    calls,      \* how many hook operations have been called
    mem,        \* a Task[] held by a direct caller of the store and query functions
    auth,       \* useAuth: isAuthenticated of the instance of TodoApp (app) and of
                \* the instance of LoginScreen (login)
    card,       \* TaskCard: swipeOffset, isDragging, the refs startX and currentX,
                \* and the callback the last release called
    form,       \* TodoApp: isFormOpen, editingTask (by id), and whether the
                \* submit handler is waiting for the hook
    shownStats, \* TaskStats: its state stats, the statistics on display
    event       \* the handler of the task screen that ran last

vars ==
    <<storage, userItem, authUser, now, tasks, filters, isLoading, error, queue,
      settled, last, calls, mem, auth, card, form, shownStats, event>>

\* the state of the hook and the service
hookVars ==
    <<storage, userItem, authUser, now, tasks, filters, isLoading, error, queue,
      settled, last, calls, mem>>

\* the state of the components around the hook and the service
uiVars == <<auth, card, form, shownStats, event>>

(***************************************************************************)
(* Bounds of the model.                                                    *)
(***************************************************************************)
Epoch0 == 999
MaxTicks == 2
MaxTasks == 2
MaxQueue == 2
MaxCalls == 3
RandVals == 2
MaxMem == 3

MaxClock == Epoch0 + MaxTicks

(***************************************************************************)
(* Strings.                                                                *)
(***************************************************************************)
S_Apple == <<65, 112, 112, 108, 101>>
S_banana == <<98, 97, 110, 97, 110, 97>>
S_cherry == <<99, 104, 101, 114, 114, 121>>
S_apple == <<97, 112, 112, 108, 101>>
S_AN == <<65, 78>>
S_red == <<82, 101, 100>>
S_empty == <<>>

\* String.prototype.toLowerCase, on the code units A-Z
LowerChar(c) == IF c >= 65 /\ c <= 90 THEN c + 32 ELSE c

toLowerCase(s) == [i \in 1..Len(s) |-> LowerChar(s[i])]

\* String.prototype.includes
includes(s, sub) ==
    \E i \in 0..(Len(s) - Len(sub)) : SubSeq(s, i + 1, i + Len(sub)) = sub

\* String.prototype.trim: drop the leading and trailing spaces
trim(s) ==
    LET keep == {i \in 1..Len(s) : s[i] # 32}
    IN IF keep = {} THEN <<>>
       ELSE LET lo == CHOOSE i \in keep : \A j \in keep : i <= j
                hi == CHOOSE i \in keep : \A j \in keep : i >= j
            IN SubSeq(s, lo, hi)

\* the relational < of two strings: by code unit, a proper prefix first
StrLess(a, b) ==
    LET n == IF Len(a) < Len(b) THEN Len(a) ELSE Len(b)
        diff == {i \in 1..n : a[i] # b[i]}
    IN IF diff = {} THEN Len(a) < Len(b)
       ELSE LET k == CHOOSE i \in diff : \A j \in diff : i <= j
            IN a[k] < b[k]

\* an optional string: undefined, or a value
Undef == [has |-> FALSE, v |-> <<>>]

Some(s) == [has |-> TRUE, v |-> s]

(***************************************************************************)
(* Tasks in memory.                                                        *)
(***************************************************************************)
OPEN == "open"
COMPLETE == "complete"

\* an absent Date (dueDate?: Date)
NoDate == -1

NoId == [t |-> -1, r |-> -1]

NoTask ==
    [id |-> NoId, title |-> <<>>, description |-> Undef, dueDate |-> NoDate,
     status |-> "", createdAt |-> NoDate, updatedAt |-> NoDate, userId |-> ""]

(***************************************************************************)
(* JSON: what JSON.stringify writes for a task and what the loader reads.  *)
(***************************************************************************)
\* toISOString as it would be if it wrote whole seconds only
toISOStringSeconds(d) == [k |-> "iso", sec |-> d \div 1000, ms |-> 0]

\* Date.prototype.toJSON: the ISO-8601 string, seconds and milliseconds
toISOString(d) == [k |-> "iso", sec |-> d \div 1000, ms |-> d % 1000]

\* new Date(isoString)
parseDate(j) == j.sec * 1000 + j.ms

\* a key JSON.stringify leaves out because its value is undefined
JsonAbsent == [k |-> "absent", sec |-> 0, ms |-> 0]

stringifyTask(t) ==
    [id |-> t.id, title |-> t.title, description |-> t.description,
     dueDate |-> IF t.dueDate = NoDate THEN JsonAbsent ELSE toISOString(t.dueDate),
     status |-> t.status,
     createdAt |-> toISOString(t.createdAt),
     updatedAt |-> toISOString(t.updatedAt),
     userId |-> t.userId]

\* the map callback as it would be if it did not revive dueDate
reviveTaskNoDueDate(j) ==
    [id |-> j.id, title |-> j.title, description |-> j.description,
     dueDate |-> NoDate,
     status |-> j.status,
     createdAt |-> parseDate(j.createdAt),
     updatedAt |-> parseDate(j.updatedAt),
     userId |-> j.userId]

\* the map callback of loadTasksFromStorage
reviveTask(j) ==
    [id |-> j.id, title |-> j.title, description |-> j.description,
     dueDate |-> IF j.dueDate.k # "absent" THEN parseDate(j.dueDate) ELSE NoDate,
     status |-> j.status,
     createdAt |-> parseDate(j.createdAt),
     updatedAt |-> parseDate(j.updatedAt),
     userId |-> j.userId]

StorageNull == [kind |-> "null", items |-> <<>>]

StorageCorrupt == [kind |-> "corrupt", items |-> <<>>]

\* loadTasksFromStorage without its catch: an item that does not parse comes
\* back as one record with no fields
loadTasksFromStorageUnguarded(st) ==
    IF st.kind = "json"
    THEN [i \in 1..Len(st.items) |-> reviveTask(st.items[i])]
    ELSE IF st.kind = "corrupt" THEN <<NoTask>> ELSE <<>>

\* loadTasksFromStorage: [] when nothing is stored or it does not parse
loadTasksFromStorage(st) ==
    IF st.kind = "json"
    THEN [i \in 1..Len(st.items) |-> reviveTask(st.items[i])]
    ELSE <<>>

\* saveTasksToStorage as it would be if a failing write still replaced the item
saveTasksToStorageTorn(st, ts, writeOk) ==
    [kind |-> "json", items |-> [i \in 1..Len(ts) |-> stringifyTask(ts[i])]]

\* saveTasksToStorage: the item after setItem; setItem may throw (quota),
\* and then the item is what it was
saveTasksToStorage(st, ts, writeOk) ==
    IF writeOk
    THEN [kind |-> "json", items |-> [i \in 1..Len(ts) |-> stringifyTask(ts[i])]]
    ELSE st

(***************************************************************************)
(* TaskService.  Every method is an async function without an await in it: *)
(* its body runs to completion when it is called, so a call is one step.   *)
(* A method is modelled by the outcome of the call: whether it resolved,   *)
(* the message of the Error it rejected with, the value it resolved to and *)
(* the 'todo_tasks' item it leaves.                                        *)
(***************************************************************************)
ERR_LOAD == "Failed to load tasks"
ERR_CREATE == "Failed to create task"
ERR_UPDATE == "Failed to update task"
ERR_DELETE == "Failed to delete task"
ERR_TOGGLE == "Failed to toggle task"
ERR_NOT_FOUND == "Task not found"
ERR_SAVE == "Failed to save tasks"

\* catch (error) { console.error(..., error); throw new Error(m) }: whatever
\* was thrown in the try block, the caller is rejected with m
rethrown(thrown, m) == m

Resolved(rec, list, st) ==
    [ok |-> TRUE, err |-> "", rec |-> rec, list |-> list, store |-> st]

Rejected(msg, st) ==
    [ok |-> FALSE, err |-> msg, rec |-> NoTask, list |-> <<>>, store |-> st]

\* generateId: `task_${Date.now()}_${Math.random().toString(36).substr(2, 9)}`
generateId(t, rnd) == [t |-> t, r |-> rnd]

\* getCurrentUserId
getCurrentUserId(user) == IF user # "" THEN user ELSE "anonymous"

\* Array.prototype.findIndex(task => task.id === id), 0 for -1
findIndex(ts, id) ==
    LET hit == {i \in 1..Len(ts) : ts[i].id = id}
    IN IF hit = {} THEN 0 ELSE CHOOSE i \in hit : \A j \in hit : i <= j

\* the record with that id that a load of the item finds (NoTask if none)
findTask(st, id) ==
    LET ts == loadTasksFromStorage(st)
        i == findIndex(ts, id)
    IN IF i = 0 THEN NoTask ELSE ts[i]

\* createTask as it would be if the new list replaced the item although the
\* write was reported as failed
createTaskWrittenOnFailure(st, user, t, request, rnd, dt, writeOk) ==
    LET task == [id |-> generateId(t, rnd),
                 title |-> trim(request.title),
                 description |-> IF request.description.has
                                 THEN Some(trim(request.description.v))
                                 ELSE Undef,
                 dueDate |-> request.dueDate,
                 status |-> OPEN,
                 createdAt |-> t,
                 updatedAt |-> t + dt,
                 userId |-> getCurrentUserId(user)]
        ts == Append(loadTasksFromStorage(st), task)
    IN IF writeOk
       THEN Resolved(task, <<>>, saveTasksToStorage(st, ts, TRUE))
       ELSE Rejected(rethrown(ERR_SAVE, ERR_CREATE), saveTasksToStorage(st, ts, TRUE))

\* createTask(request); t is the clock at the call, dt the time that passes
\* between the two `new Date()` of createdAt and updatedAt
createTask(st, user, t, request, rnd, dt, writeOk) ==
    LET task == [id |-> generateId(t, rnd),
                 title |-> trim(request.title),
                 description |-> IF request.description.has
                                 THEN Some(trim(request.description.v))
                                 ELSE Undef,
                 dueDate |-> request.dueDate,
                 status |-> OPEN,
                 createdAt |-> t,
                 updatedAt |-> t + dt,
                 userId |-> getCurrentUserId(user)]
        ts == Append(loadTasksFromStorage(st), task)
    IN IF writeOk
       THEN Resolved(task, <<>>, saveTasksToStorage(st, ts, writeOk))
       ELSE Rejected(rethrown(ERR_SAVE, ERR_CREATE), saveTasksToStorage(st, ts, writeOk))

\* the merge as it would be if it stamped updatedAt with the creation time
mergeRequestCreationStamp(task, request, t) ==
    [id |-> request.id,
     title |-> IF "title" \in request.keys THEN request.title ELSE task.title,
     description |-> IF "description" \in request.keys
                     THEN request.description ELSE task.description,
     dueDate |-> IF "dueDate" \in request.keys THEN request.dueDate ELSE task.dueDate,
     status |-> IF "status" \in request.keys THEN request.status ELSE task.status,
     createdAt |-> task.createdAt,
     updatedAt |-> task.createdAt,
     userId |-> task.userId]

\* { ...tasks[taskIndex], ...request, updatedAt: new Date() }: a key the
\* request holds replaces the task's value, also when its value is undefined
mergeRequest(task, request, t) ==
    [id |-> request.id,
     title |-> IF "title" \in request.keys THEN request.title ELSE task.title,
     description |-> IF "description" \in request.keys
                     THEN request.description ELSE task.description,
     dueDate |-> IF "dueDate" \in request.keys THEN request.dueDate ELSE task.dueDate,
     status |-> IF "status" \in request.keys THEN request.status ELSE task.status,
     createdAt |-> task.createdAt,
     updatedAt |-> t,
     userId |-> task.userId]

\* updateTask(request)
\* updateTask writing back only the task it changed: what the rule "no lost
\* update" excludes
updateTaskAlone(st, t, request, writeOk) ==
    LET ts == loadTasksFromStorage(st)
        taskIndex == findIndex(ts, request.id)
    IN IF taskIndex = 0
       THEN Rejected(rethrown(ERR_NOT_FOUND, ERR_UPDATE), st)
       ELSE LET updatedTask == mergeRequest(ts[taskIndex], request, t)
                ts2 == <<updatedTask>>
            IN IF writeOk
               THEN Resolved(updatedTask, <<>>, saveTasksToStorage(st, ts2, writeOk))
               ELSE Rejected(rethrown(ERR_SAVE, ERR_UPDATE), saveTasksToStorage(st, ts2, writeOk))

updateTask(st, t, request, writeOk) ==
    LET ts == loadTasksFromStorage(st)
        taskIndex == findIndex(ts, request.id)
    IN IF taskIndex = 0
       THEN Rejected(rethrown(ERR_NOT_FOUND, ERR_UPDATE), st)
       ELSE LET updatedTask == mergeRequest(ts[taskIndex], request, t)
                ts2 == [ts EXCEPT ![taskIndex] = updatedTask]
            IN IF writeOk
               THEN Resolved(updatedTask, <<>>, saveTasksToStorage(st, ts2, writeOk))
               ELSE Rejected(rethrown(ERR_SAVE, ERR_UPDATE), saveTasksToStorage(st, ts2, writeOk))

\* deleteTask(id)
deleteTask(st, id, writeOk) ==
    LET ts == loadTasksFromStorage(st)
        filteredTasks == SelectSeq(ts, LAMBDA task : task.id # id)
    IN IF Len(filteredTasks) = Len(ts)
       THEN Rejected(rethrown(ERR_NOT_FOUND, ERR_DELETE), st)
       ELSE IF writeOk
            THEN Resolved(NoTask, <<>>, saveTasksToStorage(st, filteredTasks, writeOk))
            ELSE Rejected(rethrown(ERR_SAVE, ERR_DELETE), saveTasksToStorage(st, filteredTasks, writeOk))

\* the toggle request as it would be if it always completed the task
toggleRequestComplete(id, status) ==
    [id |-> id, keys |-> {"status"}, title |-> <<>>, description |-> Undef,
     dueDate |-> NoDate, status |-> COMPLETE]

\* the request toggleTaskCompletion hands to updateTask
toggleRequest(id, status) ==
    [id |-> id, keys |-> {"status"}, title |-> <<>>, description |-> Undef,
     dueDate |-> NoDate,
     status |-> IF status = OPEN THEN COMPLETE ELSE OPEN]

\* toggleTaskCompletion that only ever completes
toggleTaskCompletionCompletes(st, t, id, writeOk) ==
    LET task == findTask(st, id)
    IN IF task = NoTask
       THEN Rejected(rethrown(ERR_NOT_FOUND, ERR_TOGGLE), st)
       ELSE updateTask(st, t, toggleRequestComplete(id, task.status), writeOk)

\* toggleTaskCompletion(id): `return this.updateTask(...)` hands on the
\* promise of updateTask, whose rejection is not caught here
toggleTaskCompletion(st, t, id, writeOk) ==
    LET task == findTask(st, id)
    IN IF task = NoTask
       THEN Rejected(rethrown(ERR_NOT_FOUND, ERR_TOGGLE), st)
       ELSE updateTask(st, t, toggleRequest(id, task.status), writeOk)

(***************************************************************************)
(* Queries: getTasks (filter, sort) and getTaskStats.                      *)
(***************************************************************************)
\* new Date('9999-12-31'), on the model's time axis
Date9999 == 2000

NoFilters == [status |-> "", search |-> Undef, sortBy |-> "", sortOrder |-> ""]

\* the statistics TaskStats starts with
ZeroStats == [total |-> 0, completed |-> 0, pending |-> 0, overdue |-> 0]

\* getSortValue: a Date (n) or a string (s)
getSortValue(task, sortBy) ==
    CASE sortBy = "dueDate" ->
            [str |-> FALSE, s |-> <<>>,
             n |-> IF task.dueDate # NoDate THEN task.dueDate ELSE Date9999]
      [] sortBy = "createdAt" -> [str |-> FALSE, s |-> <<>>, n |-> task.createdAt]
      [] sortBy = "title" -> [str |-> TRUE, s |-> toLowerCase(task.title), n |-> 0]
      [] OTHER -> [str |-> FALSE, s |-> <<>>, n |-> task.createdAt]

\* aValue < bValue, on two Dates or on two strings
ValueLess(x, y) == IF x.str THEN StrLess(x.s, y.s) ELSE x.n < y.n

\* the comparator handed to sort
compareTasks(a, b, f) ==
    LET aValue == getSortValue(a, f.sortBy)
        bValue == getSortValue(b, f.sortBy)
        comparison == IF ValueLess(aValue, bValue) THEN -1
                      ELSE IF ValueLess(bValue, aValue) THEN 1 ELSE 0
    IN IF f.sortOrder = "desc" THEN 0 - comparison ELSE comparison

\* one insertion of a stable sort: x goes behind every element that does
\* not compare greater than it
RECURSIVE insertSorted(_, _, _)
insertSorted(x, sorted, f) ==
    IF sorted = <<>> THEN <<x>>
    ELSE IF compareTasks(Head(sorted), x, f) <= 0
         THEN <<Head(sorted)>> \o insertSorted(x, Tail(sorted), f)
         ELSE <<x>> \o sorted

\* Array.prototype.sort(comparator), which is stable
RECURSIVE sortTasks(_, _)
sortTasks(ts, f) ==
    IF ts = <<>> THEN <<>>
    ELSE insertSorted(ts[Len(ts)], sortTasks(SubSeq(ts, 1, Len(ts) - 1), f), f)

\* the search predicate as it would be if it looked at the title only
matchesSearchTitleOnly(task, search) ==
    includes(toLowerCase(task.title), toLowerCase(search))

\* the search predicate of getTasks
matchesSearch(task, search) ==
    LET searchLower == toLowerCase(search)
    IN \/ includes(toLowerCase(task.title), searchLower)
       \/ /\ task.description.has
          /\ includes(toLowerCase(task.description.v), searchLower)

\* getTasks(filters), of the item st
getTasks(st, f) ==
    LET ts == loadTasksFromStorage(st)
        byStatus == IF f.status # ""
                    THEN SelectSeq(ts, LAMBDA task : task.status = f.status)
                    ELSE ts
        bySearch == IF f.search.has /\ f.search.v # <<>>
                    THEN SelectSeq(byStatus, LAMBDA task : matchesSearch(task, f.search.v))
                    ELSE byStatus
    IN IF f.sortBy # "" THEN sortTasks(bySearch, f) ELSE bySearch

\* the overdue predicate as it would be with <= for <
statsOverdueInclusive(task, t) ==
    task.status = OPEN /\ task.dueDate # NoDate /\ task.dueDate <= t

\* the overdue predicate of getTaskStats
statsOverdue(task, t) ==
    task.status = OPEN /\ task.dueDate # NoDate /\ task.dueDate < t

\* TaskCard.isOverdue
isOverdue(task, t) ==
    task.status = OPEN /\ task.dueDate # NoDate /\ task.dueDate < t

\* getTaskStats as it would be if pending counted every task
getTaskStatsPendingAll(st, t) ==
    LET ts == getTasks(st, NoFilters)
    IN [total |-> Len(ts),
        completed |-> Len(SelectSeq(ts, LAMBDA task : task.status = COMPLETE)),
        pending |-> Len(ts),
        overdue |-> Len(SelectSeq(ts, LAMBDA task : task.status = OPEN /\ task.dueDate # NoDate /\ task.dueDate < t))]

\* getTaskStats(), with the clock read at t
getTaskStats(st, t) ==
    LET ts == getTasks(st, NoFilters)
    IN [total |-> Len(ts),
        completed |-> Len(SelectSeq(ts, LAMBDA task : task.status = COMPLETE)),
        pending |-> Len(SelectSeq(ts, LAMBDA task : task.status = OPEN)),
        overdue |-> Len(SelectSeq(ts, LAMBDA task : statsOverdue(task, t)))]

(***************************************************************************)
(* What the callers send.                                                  *)
(***************************************************************************)
S_bananaPadded == <<32, 98, 97, 110, 97, 110, 97, 32>>

\* CreateTaskRequest values: a bare title; a padded title with a
\* description and a due date one tick after the start of the clock
CreateRequests ==
    {[title |-> S_Apple, description |-> Undef, dueDate |-> NoDate],
     [title |-> S_bananaPadded, description |-> Some(S_red), dueDate |-> Epoch0 + 1]}

\* UpdateTaskRequest values for id: what TaskForm submits when editing
\* (title, description and dueDate, the last two undefined), and a request
\* that holds a title only
UpdateRequests(id) ==
    {[id |-> id, keys |-> {"title", "description", "dueDate"}, title |-> S_cherry,
      description |-> Undef, dueDate |-> NoDate, status |-> ""],
     [id |-> id, keys |-> {"title"}, title |-> S_apple,
      description |-> Undef, dueDate |-> NoDate, status |-> ""]}

\* no UpdateTaskRequest
NoRequest ==
    [id |-> NoId, keys |-> {}, title |-> <<>>, description |-> Undef,
     dueDate |-> NoDate, status |-> ""]

\* a TaskCard nobody touches: useState(0), useState(false), useRef(0)
CardIdle ==
    [swipeOffset |-> 0, isDragging |-> FALSE, startX |-> 0, currentX |-> 0,
     emitted |-> ""]

\* TodoApp with the task list on display: useState(false), useState(null)
FormClosed == [open |-> FALSE, editing |-> NoId, awaiting |-> FALSE]

\* useAuth before anybody is signed in
SignedOut == [app |-> FALSE, login |-> FALSE]

\* an id no task has
StaleId == [t |-> 0, r |-> 0]

IdsOf(ts) == {ts[i].id : i \in 1..Len(ts)}

\* the ids a caller can name: of a stored task, of a visible task, or stale
KnownIds == IdsOf(loadTasksFromStorage(storage)) \cup IdsOf(tasks) \cup {StaleId}

(***************************************************************************)
(* useTasks.  A hook operation runs up to its first await when it is       *)
(* called (the service call included) and leaves its continuation in the   *)
(* microtask queue.                                                        *)
(***************************************************************************)
Entry(k, id, hops, out, f) ==
    [k |-> k, id |-> id, hops |-> hops, ok |-> out.ok, err |-> out.err, rec |-> out.rec,
     list |-> out.list, filt |-> f]

\* the record of a service call
Called(op, id, out, before) ==
    [n |-> 1 - last.n, op |-> op, id |-> id, ok |-> out.ok, err |-> out.err,
     before |-> before, rec |-> out.rec, list |-> out.list, req |-> NoRequest]

Returned(op, ok) == [op |-> op, ok |-> ok]

\* loadTasks up to its await: setIsLoading(true), setError(undefined), getTasks
LoadTasksCall ==
    /\ Len(queue) < MaxQueue
    /\ calls < MaxCalls
    /\ calls' = calls + 1
    /\ LET out == Resolved(NoTask, getTasks(storage, filters), storage)
       IN queue' = Append(queue, Entry("load", NoId, 0, out, filters))
    /\ isLoading' = TRUE
    /\ error' = ""
    /\ UNCHANGED <<storage, userItem, authUser, now, tasks, filters, settled, last, mem>>

\* loadTasks after its await: setTasks(loadedTasks), finally setIsLoading(false)
LoadTasksSettle ==
    /\ queue # <<>>
    /\ Head(queue).hops = 0
    /\ Head(queue).k = "load"
    /\ tasks' = Head(queue).list
    /\ isLoading' = FALSE
    /\ queue' = Tail(queue)
    /\ settled' = Returned("loadTasks", TRUE)
    /\ UNCHANGED <<calls, storage, userItem, authUser, now, filters, error, last, mem>>

\* createTask up to its await
CreateTaskCall(request, rnd, dt, writeOk) ==
    /\ Len(queue) < MaxQueue
    /\ calls < MaxCalls
    /\ calls' = calls + 1
    /\ Len(loadTasksFromStorage(storage)) < MaxTasks
    /\ now + dt <= MaxClock
    /\ LET out == createTask(storage, userItem, now, request, rnd, dt, writeOk)
       IN /\ storage' = out.store
          /\ queue' = Append(queue, Entry("create", NoId, 0, out, filters))
          /\ last' = Called("createTask", out.rec.id, out, NoTask)
    /\ now' = now + dt
    /\ error' = ""
    /\ UNCHANGED <<userItem, authUser, tasks, filters, isLoading, settled, mem>>

\* createTask after its await: setTasks(prev => [newTask, ...prev]), or the
\* catch block
CreateTaskSettle ==
    /\ queue # <<>>
    /\ Head(queue).hops = 0
    /\ Head(queue).k = "create"
    /\ IF Head(queue).ok
       THEN /\ tasks' = <<Head(queue).rec>> \o tasks
            /\ error' = error
       ELSE /\ tasks' = tasks
            /\ error' = Head(queue).err
    /\ queue' = Tail(queue)
    /\ settled' = Returned("createTask", Head(queue).ok)
    /\ UNCHANGED <<calls, storage, userItem, authUser, now, filters, isLoading, last, mem>>

\* prev.map(task => task.id === updatedTask.id ? updatedTask : task)
replaceTask(prev, updatedTask) ==
    [i \in 1..Len(prev) |-> IF prev[i].id = updatedTask.id THEN updatedTask ELSE prev[i]]

\* updateTask up to its await
UpdateTaskCall(request, writeOk) ==
    /\ Len(queue) < MaxQueue
    /\ calls < MaxCalls
    /\ calls' = calls + 1
    /\ LET out == updateTask(storage, now, request, writeOk)
       IN /\ storage' = out.store
          /\ queue' = Append(queue, Entry("update", request.id, 0, out, filters))
          /\ last' = Called("updateTask", request.id, out, findTask(storage, request.id))
    /\ error' = ""
    /\ UNCHANGED <<userItem, authUser, now, tasks, filters, isLoading, settled, mem>>

\* updateTask after its await
UpdateTaskSettle ==
    /\ queue # <<>>
    /\ Head(queue).hops = 0
    /\ Head(queue).k = "update"
    /\ IF Head(queue).ok
       THEN /\ tasks' = replaceTask(tasks, Head(queue).rec)
            /\ error' = error
       ELSE /\ tasks' = tasks
            /\ error' = Head(queue).err
    /\ queue' = Tail(queue)
    /\ settled' = Returned("updateTask", Head(queue).ok)
    /\ UNCHANGED <<calls, storage, userItem, authUser, now, filters, isLoading, last, mem>>

\* toggleTaskCompletion up to its await.  When the service hands on the
\* promise of updateTask, its own promise follows that one two microtasks
\* later (the thenable job, then the reaction)
ToggleTaskCompletionCall(id, writeOk) ==
    /\ Len(queue) < MaxQueue
    /\ calls < MaxCalls
    /\ calls' = calls + 1
    /\ LET before == findTask(storage, id)
           out == toggleTaskCompletion(storage, now, id, writeOk)
       IN /\ storage' = out.store
          /\ queue' = Append(queue,
                 Entry("toggle", id, IF before = NoTask THEN 0 ELSE 2, out, filters))
          /\ last' = Called("toggleTaskCompletion", id, out, before)
    /\ error' = ""
    /\ UNCHANGED <<userItem, authUser, now, tasks, filters, isLoading, settled, mem>>

\* toggleTaskCompletion after its await
ToggleTaskCompletionSettle ==
    /\ queue # <<>>
    /\ Head(queue).hops = 0
    /\ Head(queue).k = "toggle"
    /\ IF Head(queue).ok
       THEN /\ tasks' = replaceTask(tasks, Head(queue).rec)
            /\ error' = error
       ELSE /\ tasks' = tasks
            /\ error' = Head(queue).err
    /\ queue' = Tail(queue)
    /\ settled' = Returned("toggleTaskCompletion", Head(queue).ok)
    /\ UNCHANGED <<calls, storage, userItem, authUser, now, filters, isLoading, last, mem>>

\* a promise that follows another promise: one microtask closer to settling
PromiseHop ==
    /\ queue # <<>>
    /\ Head(queue).hops > 0
    /\ queue' = Append(Tail(queue), [Head(queue) EXCEPT !.hops = @ - 1])
    /\ UNCHANGED <<calls, storage, userItem, authUser, now, tasks, filters, isLoading, error, settled, last, mem>>

\* deleteTask up to its await: the visible collection loses the task first
DeleteTaskCall(id, writeOk) ==
    /\ Len(queue) < MaxQueue
    /\ calls < MaxCalls
    /\ calls' = calls + 1
    /\ LET out == deleteTask(storage, id, writeOk)
       IN /\ storage' = out.store
          /\ queue' = Append(queue, Entry("delete", id, 0, out, filters))
          /\ last' = Called("deleteTask", id, out, findTask(storage, id))
    /\ tasks' = SelectSeq(tasks, LAMBDA task : task.id # id)
    /\ error' = ""
    /\ UNCHANGED <<userItem, authUser, now, filters, isLoading, settled, mem>>

\* deleteTask after its await: done, or the catch block up to `await
\* loadTasks()`: setError(errorMessage), and loadTasks runs up to its own
\* await (setIsLoading(true), setError(undefined), getTasks with the filters
\* of the render the callback was made in)
DeleteTaskSettle ==
    /\ queue # <<>>
    /\ Head(queue).hops = 0
    /\ Head(queue).k = "delete"
    /\ IF Head(queue).ok
       THEN /\ queue' = Tail(queue)
            /\ settled' = Returned("deleteTask", TRUE)
            /\ UNCHANGED <<isLoading, error>>
       ELSE /\ LET out == Resolved(NoTask, getTasks(storage, Head(queue).filt), storage)
               IN queue' = Append(Tail(queue), Entry("deleteLoad", Head(queue).id, 0, out, Head(queue).filt))
            /\ isLoading' = TRUE
            /\ error' = ""
            /\ settled' = settled
    /\ UNCHANGED <<calls, storage, userItem, authUser, now, tasks, filters, last, mem>>

\* the loadTasks of the catch block after its await
DeleteReloadSettle ==
    /\ queue # <<>>
    /\ Head(queue).hops = 0
    /\ Head(queue).k = "deleteLoad"
    /\ tasks' = Head(queue).list
    /\ isLoading' = FALSE
    /\ queue' = Append(Tail(queue), [Head(queue) EXCEPT !.k = "deleteDone", !.list = <<>>])
    /\ UNCHANGED <<calls, storage, userItem, authUser, now, filters, error, settled, last, mem>>

\* the catch block of deleteTask after `await loadTasks()`: return false
DeleteTaskFailed ==
    /\ queue # <<>>
    /\ Head(queue).hops = 0
    /\ Head(queue).k = "deleteDone"
    /\ queue' = Tail(queue)
    /\ settled' = Returned("deleteTask", FALSE)
    /\ UNCHANGED <<calls, storage, userItem, authUser, now, tasks, filters, isLoading, error, last, mem>>

\* time passes
Tick ==
    /\ now < MaxClock
    /\ now' = now + 1
    /\ UNCHANGED <<calls, storage, userItem, authUser, tasks, filters, isLoading, error, queue, settled, last, mem>>

(***************************************************************************)
(* The application: the hook is mounted (its effect has called loadTasks)  *)
(* in a browser that holds no 'todo_tasks' item yet.                        *)
(***************************************************************************)
Init ==
    /\ storage = StorageNull
    /\ userItem = ""
    /\ authUser = ""
    /\ now = Epoch0
    /\ tasks = <<>>
    /\ filters = NoFilters
    /\ isLoading = TRUE
    /\ error = ""
    /\ queue = <<Entry("load", NoId, 0, Resolved(NoTask, <<>>, storage), NoFilters)>>
    /\ settled = Returned("", TRUE)
    /\ last = [n |-> 0, op |-> "", id |-> NoId, ok |-> TRUE, err |-> "",
               before |-> NoTask, rec |-> NoTask, list |-> <<>>, req |-> NoRequest]
    /\ calls = 0
    /\ mem = <<>>
    /\ auth = SignedOut
    /\ card = CardIdle
    /\ form = FormClosed
    /\ shownStats = ZeroStats
    /\ event = ""

Next ==
    /\ UNCHANGED uiVars
    /\ \/ LoadTasksCall
       \/ LoadTasksSettle
       \/ \E request \in CreateRequests, rnd \in 0..(RandVals - 1), dt \in 0..1, writeOk \in BOOLEAN :
             CreateTaskCall(request, rnd, dt, writeOk)
       \/ CreateTaskSettle
       \/ \E id \in KnownIds, writeOk \in BOOLEAN :
             \E request \in UpdateRequests(id) : UpdateTaskCall(request, writeOk)
       \/ UpdateTaskSettle
       \/ \E id \in KnownIds, writeOk \in BOOLEAN : ToggleTaskCompletionCall(id, writeOk)
       \/ ToggleTaskCompletionSettle
       \/ PromiseHop
       \/ \E id \in KnownIds, writeOk \in BOOLEAN : DeleteTaskCall(id, writeOk)
       \/ DeleteTaskSettle
       \/ DeleteReloadSettle
       \/ DeleteTaskFailed
       \/ Tick

Spec == Init /\ [][Next]_vars

(***************************************************************************)
(* The store and the query functions called directly: a caller holds a     *)
(* Task[] (mem), saves it, loads it back and then queries it.              *)
(***************************************************************************)
\* the tasks a collection is made of: the i-th was created at time c
MemTask(i, c, title, description, dueDate, status) ==
    [id |-> generateId(c, i), title |-> title, description |-> description,
     dueDate |-> dueDate, status |-> status, createdAt |-> c, updatedAt |-> c,
     userId |-> getCurrentUserId("")]

MemTitles == {S_Apple, S_apple, S_banana}

MemDescriptions == {Undef, Some(S_red)}

\* no due date, one before and one after new Date('9999-12-31')
MemDueDates == {NoDate, Epoch0, Date9999 + 1}

MemShapes(i, c) ==
    {MemTask(i, c, title, description, dueDate, status) :
        title \in MemTitles, description \in MemDescriptions,
        dueDate \in MemDueDates, status \in {OPEN, COMPLETE}}

\* the three tasks titled banana, Apple, cherry, created one after another
MemExample ==
    <<MemTask(1, Epoch0, S_banana, Undef, NoDate, OPEN),
      MemTask(2, Epoch0, S_Apple, Undef, NoDate, OPEN),
      MemTask(3, Epoch0 + 1, S_cherry, Undef, NoDate, OPEN)>>

\* collections in the order of creation: of up to MaxMem - 1 tasks of any
\* shape, and the example of three
MemCollections ==
    {MemExample} \cup
    UNION {
        {ts \in [1..n -> UNION {MemShapes(i, c) : i \in 1..n, c \in Epoch0..(Epoch0 + 1)}] :
            /\ \A i \in 1..n : ts[i].id.r = i
            /\ \A i \in 1..n : i > 1 => ts[i - 1].createdAt <= ts[i].createdAt} :
        n \in 0..(MaxMem - 1)}

\* the filters a caller passes
QueryFilters ==
    {f \in [status : {"", COMPLETE},
            search : {Undef, Some(S_empty), Some(S_AN), Some(S_red)},
            sortBy : {"", "dueDate", "createdAt", "title"},
            sortOrder : {"", "asc", "desc"}] :
        f.sortBy = "" => f.sortOrder = ""}

DirectCall(op, ok, list) ==
    [n |-> last.n, op |-> op, id |-> NoId, ok |-> ok, err |-> "",
     before |-> NoTask, rec |-> NoTask, list |-> list, req |-> NoRequest]

\* saveTasksToStorage(mem)
StoreSave(writeOk) ==
    /\ last.op = ""
    /\ storage' = saveTasksToStorage(storage, mem, writeOk)
    /\ last' = DirectCall("saveTasksToStorage", writeOk, <<>>)
    /\ UNCHANGED <<userItem, authUser, now, tasks, filters, isLoading, error, queue, settled, calls, mem>>

\* loadTasksFromStorage()
StoreLoad ==
    /\ last.op = "saveTasksToStorage"
    /\ last' = DirectCall("loadTasksFromStorage", TRUE, loadTasksFromStorage(storage))
    /\ UNCHANGED <<storage, userItem, authUser, now, tasks, filters, isLoading, error, queue, settled, calls, mem>>

\* getTasks(f)
QueryGetTasks(f) ==
    /\ last.op = "loadTasksFromStorage"
    /\ storage.kind = "json"
    /\ filters' = f
    /\ last' = DirectCall("getTasks", TRUE, getTasks(storage, f))
    /\ UNCHANGED <<storage, userItem, authUser, now, tasks, isLoading, error, queue, settled, calls, mem>>

InitQuery ==
    /\ mem \in MemCollections
    /\ auth = SignedOut
    /\ card = CardIdle
    /\ form = FormClosed
    /\ shownStats = ZeroStats
    /\ event = ""
    /\ storage = StorageNull
    /\ userItem = ""
    /\ authUser = ""
    /\ now = Epoch0 + 1
    /\ tasks = <<>>
    /\ filters = NoFilters
    /\ isLoading = FALSE
    /\ error = ""
    /\ queue = <<>>
    /\ settled = Returned("", TRUE)
    /\ last = [n |-> 0, op |-> "", id |-> NoId, ok |-> TRUE, err |-> "",
               before |-> NoTask, rec |-> NoTask, list |-> <<>>, req |-> NoRequest]
    /\ calls = 0

NextQuery ==
    /\ UNCHANGED uiVars
    /\ \/ \E writeOk \in BOOLEAN : StoreSave(writeOk)
       \/ StoreLoad
       \/ \E f \in QueryFilters : QueryGetTasks(f)

SpecQuery == InitQuery /\ [][NextQuery]_vars

(***************************************************************************)
(* The service behind the session: somebody signs in (which writes the     *)
(* 'todo_user_id' item the service reads), calls the service, signs out,   *)
(* and somebody else signs in.  The requests are the ones a caller of the  *)
(* service can send, not only the ones TaskForm lets through.              *)
(***************************************************************************)
\* await this.delay(1000), in milliseconds
SignInDelay == 1000

MaxSignIns == 2

MaxServiceCalls == 3

\* the shortest title validateForm accepts, and maxLength of the title input
TitleMin == 3

TitleMax == 100

S_blank == <<32, 32>>

S_long == [i \in 1..(TitleMax + 1) |-> 97]

\* the mock user of signInWithGoogle: id: `user_${Date.now()}`
mockUserId(t) == "user_" \o ToString(t)

\* CreateTaskRequest values of any caller: also a title of two characters,
\* one of spaces only and one of more than maxLength characters
ServiceCreateRequests ==
    CreateRequests \cup
    {[title |-> t, description |-> Undef, dueDate |-> NoDate] : t \in {S_AN, S_blank, S_long}}

\* UpdateTaskRequest values of any caller: also a padded title, a status
\* only, and a description with a due date
ServiceUpdateRequests(id) ==
    UpdateRequests(id) \cup
    {[id |-> id, keys |-> {"title"}, title |-> S_bananaPadded,
      description |-> Undef, dueDate |-> NoDate, status |-> ""],
     [id |-> id, keys |-> {"status"}, title |-> <<>>,
      description |-> Undef, dueDate |-> NoDate, status |-> COMPLETE],
     [id |-> id, keys |-> {"description", "dueDate"}, title |-> <<>>,
      description |-> Some(S_red), dueDate |-> Epoch0 + 1, status |-> ""]}

\* signInWithGoogle: after the delay, saveUserToStorage and saveTokenToStorage
SignInWithGoogle ==
    /\ authUser = ""
    /\ now + SignInDelay <= Epoch0 + MaxSignIns * SignInDelay
    /\ now' = now + SignInDelay
    /\ authUser' = mockUserId(now')
    /\ userItem' = mockUserId(now')
    /\ auth' = [auth EXCEPT !.login = TRUE]
    /\ UNCHANGED <<storage, tasks, filters, isLoading, error, queue, settled, last, calls, mem>>

\* signOut: removes 'todo_user' and 'todo_token'
SignOut ==
    /\ auth.app
    /\ authUser' = ""
    /\ auth' = SignedOut
    /\ UNCHANGED <<storage, userItem, now, tasks, filters, isLoading, error, queue, settled, last, calls, mem>>

\* taskService.createTask(request), called from the task screen, which TodoApp
\* shows while its useAuth instance is authenticated
ServiceCreateTask(request, rnd, writeOk) ==
    /\ auth.app
    /\ calls < MaxServiceCalls
    /\ Len(loadTasksFromStorage(storage)) < MaxTasks
    /\ calls' = calls + 1
    /\ LET out == createTask(storage, userItem, now, request, rnd, 0, writeOk)
       IN /\ storage' = out.store
          /\ last' = Called("createTask", out.rec.id, out, NoTask)
    /\ UNCHANGED <<userItem, authUser, now, tasks, filters, isLoading, error, queue, settled, mem, auth>>

\* taskService.updateTask(request)
ServiceUpdateTask(request, writeOk) ==
    /\ auth.app
    /\ calls < MaxServiceCalls
    /\ calls' = calls + 1
    /\ LET out == updateTask(storage, now, request, writeOk)
       IN /\ storage' = out.store
          /\ last' = [Called("updateTask", request.id, out, findTask(storage, request.id))
                        EXCEPT !.req = request]
    /\ UNCHANGED <<userItem, authUser, now, tasks, filters, isLoading, error, queue, settled, mem, auth>>

\* taskService.toggleTaskCompletion(id)
ServiceToggleTaskCompletion(id, writeOk) ==
    /\ auth.app
    /\ calls < MaxServiceCalls
    /\ calls' = calls + 1
    /\ LET out == toggleTaskCompletion(storage, now, id, writeOk)
       IN /\ storage' = out.store
          /\ last' = Called("toggleTaskCompletion", id, out, findTask(storage, id))
    /\ UNCHANGED <<userItem, authUser, now, tasks, filters, isLoading, error, queue, settled, mem, auth>>

\* taskService.deleteTask(id)
ServiceDeleteTask(id, writeOk) ==
    /\ auth.app
    /\ calls < MaxServiceCalls
    /\ calls' = calls + 1
    /\ LET out == deleteTask(storage, id, writeOk)
       IN /\ storage' = out.store
          /\ last' = Called("deleteTask", id, out, findTask(storage, id))
    /\ UNCHANGED <<userItem, authUser, now, tasks, filters, isLoading, error, queue, settled, mem, auth>>

\* the filters a caller of the service lists with
ServiceFilters == {NoFilters, [NoFilters EXCEPT !.status = COMPLETE]}

\* taskService.getTasks(f); useTasks loads on mount, signed in or not
ServiceGetTasks(f) ==
    /\ calls < MaxServiceCalls
    /\ calls' = calls + 1
    /\ last' = Called("getTasks", NoId, Resolved(NoTask, getTasks(storage, f), storage), NoTask)
    /\ UNCHANGED <<storage, userItem, authUser, now, tasks, filters, isLoading, error, queue,
                   settled, mem, auth>>

\* a page load: every useAuth instance starts from the stored session
\* (getCurrentUser, validateSession)
Reload ==
    /\ auth' = [app |-> authUser # "", login |-> authUser # ""]
    /\ UNCHANGED <<storage, userItem, authUser, now, tasks, filters, isLoading, error, queue,
                   settled, last, calls, mem>>

InitService ==
    /\ storage \in {StorageNull, StorageCorrupt}
    /\ userItem = ""
    /\ authUser = ""
    /\ now = Epoch0
    /\ tasks = <<>>
    /\ filters = NoFilters
    /\ isLoading = FALSE
    /\ error = ""
    /\ queue = <<>>
    /\ settled = Returned("", TRUE)
    /\ last = [n |-> 0, op |-> "", id |-> NoId, ok |-> TRUE, err |-> "",
               before |-> NoTask, rec |-> NoTask, list |-> <<>>, req |-> NoRequest]
    /\ calls = 0
    /\ mem = <<>>
    /\ auth = SignedOut
    /\ card = CardIdle
    /\ form = FormClosed
    /\ shownStats = ZeroStats
    /\ event = ""

NextService ==
    /\ UNCHANGED <<card, form, shownStats, event>>
    /\ \/ SignInWithGoogle
       \/ SignOut
       \/ Reload
       \/ \E request \in ServiceCreateRequests, rnd \in 0..(RandVals - 1), writeOk \in BOOLEAN :
             ServiceCreateTask(request, rnd, writeOk)
       \/ \E id \in KnownIds, writeOk \in BOOLEAN :
             \E request \in ServiceUpdateRequests(id) : ServiceUpdateTask(request, writeOk)
       \/ \E id \in KnownIds, writeOk \in BOOLEAN : ServiceToggleTaskCompletion(id, writeOk)
       \/ \E id \in KnownIds, writeOk \in BOOLEAN : ServiceDeleteTask(id, writeOk)
       \/ \E f \in ServiceFilters : ServiceGetTasks(f)

SpecService == InitService /\ [][NextService]_vars

(***************************************************************************)
(* Properties.                                                             *)
(***************************************************************************)

\* ---------------------------------------------------------------------------
\* TodoApp: the task screen (TaskList with TaskStats, TaskFilters and the
\* cards) and the task form, driving one useTasks instance. Each handler runs
\* in an event of its own, and the continuations of an event run before the
\* next event is handled.

\* a partial TaskFilters object: the keys it has and their values
FilterPatch(keys, f) ==
    [keys |-> keys, status |-> f.status, search |-> f.search, sortBy |-> f.sortBy,
     sortOrder |-> f.sortOrder]

FilterKeys == {"status", "search", "sortBy", "sortOrder"}

\* { ...filters, ...newFilters }
mergeFilters(f, newFilters) ==
    [status |-> IF "status" \in newFilters.keys THEN newFilters.status ELSE f.status,
     search |-> IF "search" \in newFilters.keys THEN newFilters.search ELSE f.search,
     sortBy |-> IF "sortBy" \in newFilters.keys THEN newFilters.sortBy ELSE f.sortBy,
     sortOrder |-> IF "sortOrder" \in newFilters.keys THEN newFilters.sortOrder
                   ELSE f.sortOrder]

\* useTasks.updateFilters(newFilters): setFilters(updatedFilters) and
\* loadTasks(updatedFilters) up to its await
UpdateFiltersCall(newFilters) ==
    /\ Len(queue) < MaxQueue
    /\ calls < MaxCalls
    /\ calls' = calls + 1
    /\ LET updatedFilters == mergeFilters(filters, newFilters)
           out == Resolved(NoTask, getTasks(storage, updatedFilters), storage)
       IN /\ filters' = updatedFilters
          /\ queue' = Append(queue, Entry("load", NoId, 0, out, updatedFilters))
    /\ isLoading' = TRUE
    /\ error' = ""
    /\ UNCHANGED <<storage, userItem, authUser, now, tasks, settled, last, mem>>

\* no event is being handled and no continuation is pending
Idle == queue = <<>> /\ ~form.awaiting

\* the task list is on display
ListShown == Idle /\ ~form.open

\* the mount effect of TaskStats: loadStats, which has set the state before
\* the next event
TaskStatsMount == shownStats' = getTaskStats(storage, now)

\* what TaskForm submits for a new task: trimmed title and description
FormCreateRequests ==
    {[title |-> S_Apple, description |-> Undef, dueDate |-> NoDate],
     [title |-> S_banana, description |-> Some(S_red), dueDate |-> Epoch0 + 1]}

\* what TaskForm submits for the task it edits
FormUpdateRequests(id) ==
    {r \in UpdateRequests(id) : r.keys = {"title", "description", "dueDate"}}

\* the values of the status buttons, the sort select and the search box
StatusChoices == {"", OPEN, COMPLETE}
SortChoices == {<<"", "">>, <<"title", "asc">>, <<"createdAt", "desc">>}
SearchChoices == {S_empty, S_AN}

\* TodoApp.handleCreateClick
handleCreateClick ==
    /\ ListShown
    /\ form' = [open |-> TRUE, editing |-> NoId, awaiting |-> FALSE]
    /\ event' = "handleCreateClick"
    /\ UNCHANGED <<hookVars, auth, card, shownStats>>

\* TodoApp.handleEditClick(task), from the edit button of a card
handleEditClick(id) ==
    /\ ListShown
    /\ id \in IdsOf(tasks)
    /\ form' = [open |-> TRUE, editing |-> id, awaiting |-> FALSE]
    /\ event' = "handleEditClick"
    /\ UNCHANGED <<hookVars, auth, card, shownStats>>

\* TodoApp.handleFormCancel: the list is mounted again, and TaskStats with it
handleFormCancel ==
    /\ Idle
    /\ form.open
    /\ form' = FormClosed
    /\ TaskStatsMount
    /\ event' = "handleFormCancel"
    /\ UNCHANGED <<hookVars, auth, card>>

\* TaskForm.handleSubmit -> TodoApp.handleTaskSubmit up to the await of
\* createTask or updateTask
handleTaskSubmit ==
    /\ Idle
    /\ form.open
    /\ IF form.editing = NoId
       THEN \E request \in FormCreateRequests, rnd \in 0..(RandVals - 1), writeOk \in BOOLEAN :
               CreateTaskCall(request, rnd, 0, writeOk)
       ELSE \E request \in FormUpdateRequests(form.editing), writeOk \in BOOLEAN :
               UpdateTaskCall(request, writeOk)
    /\ form' = [form EXCEPT !.awaiting = TRUE]
    /\ event' = "handleTaskSubmit"
    /\ UNCHANGED <<auth, card, shownStats>>

\* handleCreateTask and handleEditTask after their await: the form closes if
\* the hook returned a task, and then the list and TaskStats are mounted again
handleTaskSubmitReturn ==
    /\ form.awaiting
    /\ queue = <<>>
    /\ IF settled.ok
       THEN /\ form' = FormClosed
            /\ TaskStatsMount
       ELSE /\ form' = [form EXCEPT !.awaiting = FALSE]
            /\ UNCHANGED shownStats
    /\ UNCHANGED <<hookVars, auth, card, event>>

\* the checkbox of a card: onToggleComplete(task.id)
onToggleComplete(id) ==
    /\ ListShown
    /\ id \in IdsOf(tasks)
    /\ \E writeOk \in BOOLEAN : ToggleTaskCompletionCall(id, writeOk)
    /\ event' = "onToggleComplete"
    /\ UNCHANGED <<auth, card, form, shownStats>>

\* the delete button or the swipe of a card: onDelete(task.id)
onDelete(id) ==
    /\ ListShown
    /\ id \in IdsOf(tasks)
    /\ \E writeOk \in BOOLEAN : DeleteTaskCall(id, writeOk)
    /\ event' = "onDelete"
    /\ UNCHANGED <<auth, card, form, shownStats>>

\* TaskList.handleManualRefresh and handlePullEnd: onRefresh()
onRefresh ==
    /\ ListShown
    /\ LoadTasksCall
    /\ event' = "onRefresh"
    /\ UNCHANGED <<auth, card, form, shownStats>>

\* TaskFilters.handleStatusFilter(status): { ...filters, status }
handleStatusFilter(status) ==
    /\ ListShown
    /\ UpdateFiltersCall(FilterPatch(FilterKeys, [filters EXCEPT !.status = status]))
    /\ event' = "handleStatusFilter"
    /\ UNCHANGED <<auth, card, form, shownStats>>

\* TaskFilters.handleSortChange(value): the filters without sortBy and
\* sortOrder for 'none', otherwise { ...filters, sortBy, sortOrder }
handleSortChange(value) ==
    /\ ListShown
    /\ IF value[1] = ""
       THEN /\ UpdateFiltersCall(FilterPatch({"status", "search"}, filters))
            /\ event' = "handleSortChange(none)"
       ELSE /\ UpdateFiltersCall(FilterPatch(FilterKeys,
                   [filters EXCEPT !.sortBy = value[1], !.sortOrder = value[2]]))
            /\ event' = "handleSortChange"
    /\ UNCHANGED <<auth, card, form, shownStats>>

\* TaskFilters.clearFilters, the Clear button of the filter bar, shown while
\* a status or a sort is set: { search: filters.search }
clearFilters ==
    /\ ListShown
    /\ filters.status # "" \/ filters.sortBy # ""
    /\ UpdateFiltersCall(FilterPatch({"search"}, filters))
    /\ event' = "clearFilters"
    /\ UNCHANGED <<auth, card, form, shownStats>>

\* TaskList.handleSearchChange(value): { ...filters, search: value || undefined }
handleSearchChange(value) ==
    /\ ListShown
    /\ UpdateFiltersCall(FilterPatch(FilterKeys,
          [filters EXCEPT !.search = IF value = S_empty THEN Undef ELSE Some(value)]))
    /\ event' = "handleSearchChange"
    /\ UNCHANGED <<auth, card, form, shownStats>>

\* the Clear Filters button of the empty state, shown while nothing is listed
\* and a search or a status is set: onFilterChange({})
emptyStateClearFilters ==
    /\ ListShown
    /\ ~isLoading
    /\ tasks = <<>>
    /\ filters.search.has \/ filters.status # ""
    /\ UpdateFiltersCall(FilterPatch({}, filters))
    /\ event' = "emptyStateClearFilters"
    /\ UNCHANGED <<auth, card, form, shownStats>>

\* the continuations of the hook
HookSettle ==
    \/ LoadTasksSettle
    \/ CreateTaskSettle
    \/ UpdateTaskSettle
    \/ ToggleTaskCompletionSettle
    \/ PromiseHop
    \/ DeleteTaskSettle
    \/ DeleteReloadSettle
    \/ DeleteTaskFailed

\* somebody is signed in and TodoApp has just been mounted: the list is on
\* display, useTasks and TaskStats run their mount effects
InitApp ==
    /\ storage = StorageNull
    /\ userItem = mockUserId(Epoch0)
    /\ authUser = mockUserId(Epoch0)
    /\ now = Epoch0
    /\ tasks = <<>>
    /\ filters = NoFilters
    /\ isLoading = TRUE
    /\ error = ""
    /\ queue = <<Entry("load", NoId, 0, Resolved(NoTask, <<>>, storage), NoFilters)>>
    /\ settled = Returned("", TRUE)
    /\ last = [n |-> 0, op |-> "", id |-> NoId, ok |-> TRUE, err |-> "",
               before |-> NoTask, rec |-> NoTask, list |-> <<>>, req |-> NoRequest]
    /\ calls = 0
    /\ mem = <<>>
    /\ auth = [app |-> TRUE, login |-> TRUE]
    /\ card = CardIdle
    /\ form = FormClosed
    /\ shownStats = ZeroStats
    /\ event = ""

NextApp ==
    \/ handleCreateClick
    \/ \E id \in IdsOf(tasks) : handleEditClick(id)
    \/ handleFormCancel
    \/ handleTaskSubmit
    \/ handleTaskSubmitReturn
    \/ \E id \in IdsOf(tasks) : onToggleComplete(id)
    \/ \E id \in IdsOf(tasks) : onDelete(id)
    \/ onRefresh
    \/ \E status \in StatusChoices : handleStatusFilter(status)
    \/ \E value \in SortChoices : handleSortChange(value)
    \/ clearFilters
    \/ \E value \in SearchChoices : handleSearchChange(value)
    \/ emptyStateClearFilters
    \/ HookSettle /\ UNCHANGED uiVars
    \/ Tick /\ UNCHANGED uiVars

SpecApp == InitApp /\ [][NextApp]_vars

\* ---------------------------------------------------------------------------
\* TaskCard: the swipe gesture of one card. Pointer positions are clientX
\* values on a grid; state set in one event handler is rendered before the
\* next event is handled.

GridPx == 20
MaxX == 200

\* the clientX values of the events
PointerXs == {x \in 0..MaxX : x % GridPx = 0}

\* Math.max(diff, -100)
SwipeLimit == 100

\* swipeOffset < -60
SwipeThreshold == 60

Max(a, b) == IF a >= b THEN a ELSE b

\* handleStart(clientX), from touchstart and mousedown
handleStart(x) ==
    /\ card.emitted # "delete"
    /\ card' = [card EXCEPT !.isDragging = TRUE, !.startX = x, !.currentX = x,
                            !.emitted = ""]
    /\ UNCHANGED <<hookVars, auth, form, shownStats, event>>

\* handleMove(clientX), from touchmove and (while dragging) mousemove:
\* nothing unless dragging; only a position left of the start is shown
handleMove(x) ==
    /\ card.emitted # "delete"
    /\ card.isDragging
    /\ LET diff == x - card.startX
       IN card' = [card EXCEPT !.currentX = x,
                               !.swipeOffset = IF diff < 0
                                               THEN Max(diff, 0 - SwipeLimit)
                                               ELSE @]
    /\ UNCHANGED <<hookVars, auth, form, shownStats, event>>

\* handleEnd(), from touchend and (while dragging) mouseup and mouseleave:
\* onDelete(task.id) if the offset on display is beyond the threshold,
\* otherwise the card snaps back
handleEnd ==
    /\ card.emitted # "delete"
    /\ card.isDragging
    /\ card' = IF card.swipeOffset < 0 - SwipeThreshold
               THEN [card EXCEPT !.isDragging = FALSE, !.emitted = "delete"]
               ELSE [card EXCEPT !.isDragging = FALSE, !.swipeOffset = 0,
                                 !.emitted = "none"]
    /\ UNCHANGED <<hookVars, auth, form, shownStats, event>>

\* the card onDelete took out of the list comes back (the delete failed and
\* the hook reloaded): a new TaskCard for the same task
CardRemount ==
    /\ card.emitted = "delete"
    /\ card' = CardIdle
    /\ UNCHANGED <<hookVars, auth, form, shownStats, event>>

InitCard ==
    /\ storage = StorageNull
    /\ userItem = ""
    /\ authUser = ""
    /\ now = Epoch0
    /\ tasks = <<>>
    /\ filters = NoFilters
    /\ isLoading = FALSE
    /\ error = ""
    /\ queue = <<>>
    /\ settled = Returned("", TRUE)
    /\ last = [n |-> 0, op |-> "", id |-> NoId, ok |-> TRUE, err |-> "",
               before |-> NoTask, rec |-> NoTask, list |-> <<>>, req |-> NoRequest]
    /\ calls = 0
    /\ mem = <<>>
    /\ auth = SignedOut
    /\ card = CardIdle
    /\ form = FormClosed
    /\ shownStats = ZeroStats
    /\ event = ""

NextCard ==
    \/ \E x \in PointerXs : handleStart(x)
    \/ \E x \in PointerXs : handleMove(x)
    \/ handleEnd
    \/ CardRemount

SpecCard == InitCard /\ [][NextCard]_vars


RangeOf(ts) == {ts[i] : i \in 1..Len(ts)}

Persisted == loadTasksFromStorage(storage)

\* the step is a TaskService call of op
ServiceStep(op) == last'.n # last.n /\ last'.op = op

\* the step is the continuation of hook operation k, after its await
SettleStep(k) ==
    /\ queue # <<>>
    /\ Head(queue).k = k
    /\ Head(queue).hops = 0
    /\ queue' = Tail(queue)

\* C1: an update of an existing id whose store write fails leaves the item
\* as it was, so the persisted record of that id is what it was before the
\* call; and the continuation of a failed updateTask leaves the visible
\* collection as it is, returns null and sets the error.
C1_FailedUpdateKeepsState ==
    [][ /\ (ServiceStep("updateTask") /\ ~last'.ok /\ last'.before # NoTask)
            => (storage' = storage /\ findTask(storage', last'.id) = last'.before)
        /\ (SettleStep("update") /\ ~Head(queue).ok)
            => (tasks' = tasks /\ settled' = Returned("updateTask", FALSE) /\ error' # "")
      ]_vars

\* C1, its case: a failed update of a stored and visible task has settled
C1_Witness ==
    /\ queue = <<>>
    /\ settled = Returned("updateTask", FALSE)
    /\ last.op = "updateTask" /\ ~last.ok /\ last.before # NoTask
    /\ findTask(storage, last.id) = last.before
    /\ \E i \in 1..Len(tasks) : tasks[i] = last.before

\* C2: the record a successful createTask returned is in the result of an
\* unfiltered getTasks, equal in every field.
C2_CreatedIsListed ==
    (last.op = "createTask" /\ last.ok)
        => \E i \in 1..Len(getTasks(storage, NoFilters)) :
              getTasks(storage, NoFilters)[i] = last.rec

\* C2, its case: a second task, with a description and a due date, was created
C2_Witness ==
    /\ last.op = "createTask" /\ last.ok
    /\ last.rec.description.has
    /\ last.rec.dueDate # NoDate
    /\ Len(Persisted) = 2

\* the step is the second of two successive successful toggles of one id
C3_SecondToggle ==
    /\ ServiceStep("toggleTaskCompletion") /\ last'.ok
    /\ last.op = "toggleTaskCompletion" /\ last.ok
    /\ last'.id = last.id

\* C3 as stated: two toggles return the status, and updatedAt grows
\* strictly with each of them.
C3_StrictlyIncreasing ==
    [][ C3_SecondToggle =>
            /\ last'.rec.status = last.before.status
            /\ last.rec.updatedAt > last.before.updatedAt
            /\ last'.rec.updatedAt > last'.before.updatedAt
      ]_vars

\* C3 as amended: two toggles return the status, and updatedAt after each
\* toggle is the clock at that toggle: never less than before, and greater
\* when the clock has moved on since the previous stamp.
C3_NonDecreasing ==
    [][ C3_SecondToggle =>
            /\ last'.rec.status = last.before.status
            /\ last.rec.updatedAt >= last.before.updatedAt
            /\ last'.rec.updatedAt >= last'.before.updatedAt
            /\ last'.rec.updatedAt = now'
            /\ (now' > last'.before.updatedAt
                    => last'.rec.updatedAt > last'.before.updatedAt)
      ]_vars

\* C3, its case: a completed task was toggled back to open within the
\* millisecond of its previous stamp
C3_Witness ==
    /\ last.op = "toggleTaskCompletion" /\ last.ok
    /\ last.before.status = COMPLETE
    /\ last.rec.status = OPEN
    /\ last.rec.updatedAt = last.before.updatedAt

\* C4 as stated: deleteTask of an id that is not stored fails with the
\* not-found error, which is not the error of a failed write, and leaves
\* the item as it was.
C4_DeleteAbsentIsNotFound ==
    [][ (ServiceStep("deleteTask") /\ last'.before = NoTask)
            => /\ ~last'.ok
               /\ last'.err = ERR_NOT_FOUND
               /\ last'.err # rethrown(ERR_SAVE, ERR_DELETE)
               /\ storage' = storage
      ]_vars

\* C5: a collection that was saved is loaded back equal in every field of
\* every record and in the same order.
C5_SaveLoadRoundTrip ==
    (last.op = "loadTasksFromStorage" /\ storage.kind = "json") => last.list = mem

\* C5, its case: two tasks, one without and one with a due date, created in
\* different seconds, were saved and loaded
C5_Witness ==
    /\ last.op = "loadTasksFromStorage" /\ storage.kind = "json"
    /\ Len(mem) = 2
    /\ mem[1].dueDate = NoDate /\ mem[2].dueDate # NoDate
    /\ mem[1].createdAt < mem[2].createdAt
    /\ last.list = mem

\* overdue, as the specification defines it
OverdueAt(task, t) ==
    task.status = OPEN /\ task.dueDate # NoDate /\ task.dueDate < t

\* C6: the statistics and the task card both hold a task overdue exactly
\* when it is OPEN with a due date before the instant of evaluation, and
\* the overdue count is the number of such stored tasks.
C6_OverdueIff ==
    /\ \A task \in RangeOf(Persisted) \cup RangeOf(tasks) :
          \A t \in Epoch0..MaxClock :
              /\ statsOverdue(task, t) <=> OverdueAt(task, t)
              /\ isOverdue(task, t) <=> OverdueAt(task, t)
    /\ getTaskStats(storage, now).overdue =
          Cardinality({i \in 1..Len(Persisted) : OverdueAt(Persisted[i], now)})

\* C6, its case: a task that was open and past its due date has been
\* toggled to complete, and is not counted
C6_Witness ==
    /\ last.op = "toggleTaskCompletion" /\ last.ok
    /\ last.before.status = OPEN
    /\ last.before.dueDate # NoDate /\ last.before.dueDate < now
    /\ Len(Persisted) = 1
    /\ getTaskStats(storage, now).overdue = 0

\* C7: total is the number of stored tasks, completed and pending count
\* them by status, total = completed + pending and overdue <= pending; with
\* A (no due date) and B (due date passed) stored and open the statistics
\* are {2, 0, 2, 1}, and with A completed {2, 1, 1, 1}.
C7_Stats ==
    LET stats == getTaskStats(storage, now)
        idx == 1..Len(Persisted)
        scenario == /\ Len(Persisted) = 2
                    /\ Persisted[1].dueDate = NoDate
                    /\ Persisted[2].dueDate # NoDate /\ Persisted[2].dueDate < now
                    /\ Persisted[2].status = OPEN
    IN /\ stats.total = Cardinality(idx)
       /\ stats.completed = Cardinality({i \in idx : Persisted[i].status = COMPLETE})
       /\ stats.pending = Cardinality({i \in idx : Persisted[i].status = OPEN})
       /\ stats.total = stats.completed + stats.pending
       /\ stats.overdue <= stats.pending
       /\ (scenario /\ Persisted[1].status = OPEN)
            => stats = [total |-> 2, completed |-> 0, pending |-> 2, overdue |-> 1]
       /\ (scenario /\ Persisted[1].status = COMPLETE)
            => stats = [total |-> 2, completed |-> 1, pending |-> 1, overdue |-> 1]

\* C7, its case: A and B were created and A was toggled complete
C7_Witness ==
    /\ last.op = "toggleTaskCompletion" /\ last.ok
    /\ Len(Persisted) = 2
    /\ Persisted[1].dueDate = NoDate /\ Persisted[1].status = COMPLETE
    /\ Persisted[2].dueDate # NoDate /\ Persisted[2].dueDate < now
    /\ Persisted[2].status = OPEN
    /\ last.id = Persisted[1].id

\* a character of the text matches one of the search, whatever the case
SameLetter(a, b) == LowerChar(a) = LowerChar(b)

ContainsIgnoringCase(text, search) ==
    \E off \in 0..(Len(text) - Len(search)) :
        \A i \in 1..Len(search) : SameLetter(text[off + i], search[i])

\* the task passes the status and the text filter of f
Matches(task, f) ==
    /\ f.status # "" => task.status = f.status
    /\ f.search.has =>
          \/ ContainsIgnoringCase(task.title, f.search.v)
          \/ task.description.has /\ ContainsIgnoringCase(task.description.v, f.search.v)

\* the stored tasks that pass the filters, in the stored order
Matching(f) == SelectSeq(Persisted, LAMBDA task : Matches(task, f))

PositionIn(ts, task) == CHOOSE i \in 1..Len(ts) : ts[i] = task

\* a sorts before b by the key: an absent due date is later than every
\* present one; titles are compared case-folded
KeyBefore(a, b, sortBy) ==
    CASE sortBy = "dueDate" ->
            a.dueDate # NoDate /\ (b.dueDate = NoDate \/ a.dueDate < b.dueDate)
      [] sortBy = "title" -> StrLess(toLowerCase(a.title), toLowerCase(b.title))
      [] OTHER -> a.createdAt < b.createdAt

\* result is base in the order of f: the same tasks, no task before one
\* whose key is smaller (greater, for desc), equal keys in the order of base
OrderedBy(result, base, f) ==
    /\ Len(result) = Len(base)
    /\ RangeOf(result) = RangeOf(base)
    /\ \A i, j \in 1..Len(result) : i < j =>
          LET a == result[i]
              b == result[j]
          IN /\ IF f.sortOrder = "desc"
                THEN ~KeyBefore(a, b, f.sortBy)
                ELSE ~KeyBefore(b, a, f.sortBy)
             /\ (~KeyBefore(a, b, f.sortBy) /\ ~KeyBefore(b, a, f.sortBy))
                    => PositionIn(base, a) < PositionIn(base, b)

TitlesOf(ts) == [i \in 1..Len(ts) |-> ts[i].title]

\* C8 as stated: with sortBy, getTasks returns the matching tasks ordered
\* by the key (an absent due date after every present one), ascending
\* unless desc, equal keys in stored order; without sortBy, in stored
\* order; banana, Apple, cherry by title ascending is Apple, banana, cherry.
C8_SortedByKey ==
    (last.op = "getTasks") =>
        /\ filters.sortBy = "" => last.list = Matching(filters)
        /\ filters.sortBy # "" => OrderedBy(last.list, Matching(filters), filters)
        /\ (/\ TitlesOf(Persisted) = <<S_banana, S_Apple, S_cherry>>
            /\ filters.sortBy = "title" /\ filters.sortOrder # "desc"
            /\ filters.status = "" /\ ~filters.search.has)
              => TitlesOf(last.list) = <<S_Apple, S_banana, S_cherry>>

\* C9: getTasks returns exactly the stored tasks that pass the status and
\* the text filter (in stored order when there is no sort), a task without
\* description being matched on its title, and nothing that is not stored.
C9_FilterExact ==
    (last.op = "getTasks") =>
        /\ RangeOf(last.list) = RangeOf(Matching(filters))
        /\ Len(last.list) = Len(Matching(filters))
        /\ filters.sortBy = "" => last.list = Matching(filters)
        /\ RangeOf(last.list) \subseteq RangeOf(Persisted)
        /\ \A task \in RangeOf(last.list) :
              (filters.search.has /\ ~task.description.has)
                  => ContainsIgnoringCase(task.title, filters.search.v)

\* C9, its case: a search that one stored task passes by its description
\* only, and another stored task does not pass
C9_Witness ==
    /\ last.op = "getTasks"
    /\ filters.search = Some(S_red)
    /\ filters.status = COMPLETE
    /\ Len(Persisted) = 2
    /\ Len(last.list) = 1
    /\ ~ContainsIgnoringCase(last.list[1].title, S_red)

NoDuplicateIds(ts) == \A i, j \in 1..Len(ts) : ts[i].id = ts[j].id => i = j

\* C10 as stated: no two stored records and no two visible records have
\* the same id.
C10_UniqueIds == NoDuplicateIds(Persisted) /\ NoDuplicateIds(tasks)

\* C11: every stored task has updatedAt >= createdAt, and no step lowers
\* the updatedAt of an id that is stored before and after it.
C11_UpdatedAtMonotone ==
    /\ [](\A task \in RangeOf(Persisted) : task.updatedAt >= task.createdAt)
    /\ [][ \A id \in IdsOf(Persisted) \cap IdsOf(loadTasksFromStorage(storage')) :
              findTask(storage', id).updatedAt >= findTask(storage, id).updatedAt
         ]_vars

\* C11, its case: a task whose updatedAt was later than its createdAt from
\* the start has been updated at a later instant again
C11_Witness ==
    /\ last.op = "updateTask" /\ last.ok
    /\ last.before.updatedAt > last.before.createdAt
    /\ last.rec.updatedAt > last.before.updatedAt
    /\ findTask(storage, last.id) = last.rec

\* the title invariant: trimmed, and TitleMin to TitleMax characters long
ValidTitle(s) == s = trim(s) /\ Len(s) >= TitleMin /\ Len(s) <= TitleMax

\* C12 as stated: every stored title is trimmed and 3 to 100 characters
\* long; a createTask or an updateTask that succeeds has stored a task with
\* such a title (one whose title is not so fails and stores nothing).
C12_TitlesValid ==
    /\ [](\A task \in RangeOf(Persisted) : ValidTitle(task.title))
    /\ [][ (last'.n # last.n /\ last'.op \in {"createTask", "updateTask"} /\ last'.ok)
              => ValidTitle(last'.rec.title)
         ]_vars

\* C13: a createTask that fails leaves the item and the visible collection
\* as they were, and its continuation leaves the visible collection as it
\* is and returns null.
C13_FailedCreateDiscarded ==
    [][ /\ (ServiceStep("createTask") /\ ~last'.ok)
            => (storage' = storage /\ Persisted' = Persisted /\ tasks' = tasks)
        /\ (SettleStep("create") /\ ~Head(queue).ok)
            => (tasks' = tasks /\ settled' = Returned("createTask", FALSE) /\ error' # "")
      ]_vars

\* C13, its case: with one task stored and visible, a createTask whose
\* write failed has settled
C13_Witness ==
    /\ queue = <<>>
    /\ settled = Returned("createTask", FALSE)
    /\ last.op = "createTask" /\ ~last.ok
    /\ Len(Persisted) = 1
    /\ tasks = Persisted

\* the step, an updateTask of a stored id, changed the first stored task of
\* that id in the fields the request holds and in updatedAt, and nothing else
UpdateFrame ==
    LET req == last'.req
        old == last'.before
        i == findIndex(Persisted, req.id)
        new == Persisted'[i]
    IN /\ Len(Persisted') = Len(Persisted)
       /\ \A j \in 1..Len(Persisted) : j # i => Persisted'[j] = Persisted[j]
       /\ last'.rec = new
       /\ new.id = old.id /\ new.createdAt = old.createdAt /\ new.userId = old.userId
       /\ new.title = (IF "title" \in req.keys THEN req.title ELSE old.title)
       /\ new.description =
             (IF "description" \in req.keys THEN req.description ELSE old.description)
       /\ new.dueDate = (IF "dueDate" \in req.keys THEN req.dueDate ELSE old.dueDate)
       /\ new.status = (IF "status" \in req.keys THEN req.status ELSE old.status)
       /\ new.updatedAt = now

\* C14 as stated: updateTask of an id that is not stored fails with the
\* not-found error and leaves the item as it was; updateTask of a stored id
\* changes the fields the request holds and updatedAt, and nothing else.
C14_UpdateNotFoundAndFrame ==
    [][ ServiceStep("updateTask") =>
            IF last'.before = NoTask
            THEN ~last'.ok /\ last'.err = ERR_NOT_FOUND /\ storage' = storage
            ELSE last'.ok => UpdateFrame
      ]_vars

\* the step is the return of a failed hook deleteTask with nothing else in
\* flight, and a stored task of the id it was called with is visible after it
DeleteReloaded ==
    Len(queue) = 1 =>
        \A task \in RangeOf(Persisted) :
            task.id = Head(queue).id => task \in RangeOf(tasks')

\* C15 as stated: a deleteTask that fails leaves the item as it was; when
\* the hook's deleteTask returns after a failure, it returns false, the
\* stored task is visible again and the error is set.
C15_FailedDeleteReloads ==
    [][ /\ (ServiceStep("deleteTask") /\ ~last'.ok) => storage' = storage
        /\ SettleStep("deleteDone") =>
              /\ settled' = Returned("deleteTask", FALSE)
              /\ DeleteReloaded
              /\ error' # ""
      ]_vars

\* C16 as stated: while a user is signed in, every task getTasks lists is
\* owned by that user, and the statistics count that user's tasks only.
C16_OnlyOwnRecords ==
    authUser # "" =>
        /\ \A task \in RangeOf(getTasks(storage, NoFilters)) : task.userId = authUser
        /\ getTaskStats(storage, now).total =
              Cardinality({i \in 1..Len(Persisted) : Persisted[i].userId = authUser})

\* the visible task of that id shows what rec holds, but for its stamp
ShowsFieldsOf(ts, rec) ==
    \E task \in RangeOf(ts) :
        /\ task.id = rec.id
        /\ task.title = rec.title /\ task.description = rec.description
        /\ task.dueDate = rec.dueDate /\ task.status = rec.status

\* C17 as stated: the step in which a hook operation calls the service
\* already changes the visible collection: a created task is inserted, an
\* updated or toggled visible task shows the merged fields, a deleted
\* task is removed.
C17_AppliedBeforeResolve ==
    [][ /\ (ServiceStep("createTask") /\ last'.ok)
            => Len(tasks') = Len(tasks) + 1
        /\ (ServiceStep("updateTask") /\ last'.ok /\ last'.id \in IdsOf(tasks))
            => ShowsFieldsOf(tasks', last'.rec)
        /\ (ServiceStep("toggleTaskCompletion") /\ last'.ok /\ last'.id \in IdsOf(tasks))
            => ShowsFieldsOf(tasks', last'.rec)
        /\ ServiceStep("deleteTask") => last'.id \notin IdsOf(tasks')
      ]_vars

\* C18 as stated: when no operation is in flight, the visible and the
\* stored collection hold the same ids, and every visible task equals the
\* stored task of its id.
C18_SettledConsistent ==
    queue = <<>> =>
        /\ IdsOf(tasks) = IdsOf(Persisted)
        /\ \A task \in RangeOf(tasks) : task = findTask(storage, task.id)

\* C20 as stated: when everything has settled, what the latest successful
\* mutation of an id did to it is what is stored and what is shown: the
\* record an update or a toggle returned is the stored and the visible
\* task of that id, and a deleted id is neither stored nor visible.
C20_IssueOrderKept ==
    (queue = <<>> /\ last.ok) =>
        CASE last.op \in {"updateTask", "toggleTaskCompletion"} ->
                 /\ findTask(storage, last.id) = last.rec
                 /\ \A task \in RangeOf(tasks) : task.id = last.id => task = last.rec
          [] last.op = "deleteTask" ->
                 last.id \notin IdsOf(Persisted) \cup IdsOf(tasks)
          [] OTHER -> TRUE

\* the continuations of the hook's mutating operations on a task
MutatingKinds == {"update", "toggle", "delete", "deleteLoad", "deleteDone"}

\* C19 as stated: no two mutating hook operations called with the id of the
\* same task, which both found stored, are in flight together.
C19_OneInFlightPerId ==
    \A i, j \in 1..Len(queue) :
        (queue[i].k \in MutatingKinds /\ queue[j].k \in MutatingKinds
            /\ queue[i].ok /\ queue[j].ok
            /\ queue[i].id = queue[j].id) => i = j

\* ---- C21 ----

\* the id of the record an operation in flight is about
TargetId(e) == IF e.k = "create" THEN e.rec.id ELSE e.id

\* the id of the record the service call of this step is about
StepTarget == IF last'.op = "createTask" THEN last'.rec.id ELSE last'.id

\* C21: no lost update. A call of a mutating operation made while other
\* mutating operations are in flight (called, not settled) keeps what those
\* about other record ids have stored (the record a create, update or toggle
\* returned stays stored as returned, the id a delete removed stays absent) and
\* stores its own effect, so the collection after all have settled reflects
\* every one of them. Settling writes nothing.
C21_NoLostUpdate ==
    [][ /\ (last'.n # last.n) =>
             /\ \A i \in 1..Len(queue) :
                    LET e == queue[i]
                    IN (e.ok /\ TargetId(e) # StepTarget) =>
                          /\ (e.k \in {"create", "update", "toggle"}
                                  /\ e.rec \in RangeOf(Persisted))
                                 => e.rec \in RangeOf(Persisted')
                          /\ (e.k = "delete" /\ e.id \notin IdsOf(Persisted))
                                 => e.id \notin IdsOf(Persisted')
             /\ (last'.ok /\ last'.op \in {"createTask", "updateTask", "toggleTaskCompletion"})
                    => last'.rec \in RangeOf(Persisted')
             /\ (last'.ok /\ last'.op = "deleteTask")
                    => last'.id \notin IdsOf(Persisted')
        /\ (last'.n = last.n) => storage' = storage ]_vars

\* two mutating operations on different records overlap, both succeeded
C21_Witness ==
    /\ Len(queue) = 2
    /\ queue[1].k \in {"create", "update", "toggle"} /\ queue[1].ok
    /\ queue[2].k \in {"update", "toggle"} /\ queue[2].ok
    /\ TargetId(queue[1]) # TargetId(queue[2])
    /\ {queue[1].rec, queue[2].rec} \subseteq RangeOf(Persisted)
    /\ last.op \in {"updateTask", "toggleTaskCompletion"}

\* ---- C22 ----

Flip(status) == IF status = COMPLETE THEN OPEN ELSE COMPLETE

\* the update request {id, status: flip(current)}
FlipRequest(id, current) ==
    [id |-> id, keys |-> {"status"}, title |-> <<>>, description |-> Undef,
     dueDate |-> NoDate, status |-> Flip(current)]

\* two outcomes of the service agree: both fail, or both succeed with the
\* same stored collection and the same record but for its updatedAt
SameOutcome(a, b) ==
    /\ a.ok = b.ok
    /\ loadTasksFromStorage(a.store) = loadTasksFromStorage(b.store)
    /\ [a.rec EXCEPT !.updatedAt = NoDate] = [b.rec EXCEPT !.updatedAt = NoDate]

\* C23: toggleTaskCompletion(id) is updateTask({id, status: flip(current)}):
\* on every stored collection, for every id and whether or not the write goes
\* through, the two give the same stored collection and the same record up to
\* the timestamp, and both fail when the id is not stored; and each toggle the
\* service performs leaves what that update would have left.
C23_ToggleIsUpdate ==
    /\ [](\A id \in KnownIds, writeOk \in BOOLEAN :
            LET current == findTask(storage, id)
                a == toggleTaskCompletion(storage, now, id, writeOk)
                b == updateTask(storage, now, FlipRequest(id, current.status), writeOk)
            IN /\ SameOutcome(a, b)
               /\ current = NoTask => (~a.ok /\ ~b.ok /\ a.store = storage))
    /\ [][ ServiceStep("toggleTaskCompletion") =>
             LET b == updateTask(storage, now, FlipRequest(last'.id, last'.before.status),
                                 last'.ok)
             IN /\ last'.ok = b.ok
                /\ Persisted' = loadTasksFromStorage(b.store)
                /\ last'.rec = b.rec ]_vars

\* a completed task has been toggled back to open
C23_Witness ==
    /\ last.op = "toggleTaskCompletion" /\ last.ok
    /\ last.before.status = COMPLETE
    /\ last.rec.status = OPEN
    /\ last.rec \in RangeOf(Persisted)

\* ---- C24 ----

\* a drag ends
Release == card.isDragging /\ ~card'.isDragging

\* C24: a drag released more than the threshold left of its start calls
\* onDelete(id), and a drag released more than the threshold right of its
\* start calls onToggleComplete(id).
C24_SwipeActions ==
    [][ Release =>
          /\ (card.currentX - card.startX < 0 - SwipeThreshold) => card'.emitted = "delete"
          /\ (card.currentX - card.startX > SwipeThreshold) => card'.emitted = "toggle" ]_vars

\* ---- C29 ----

\* C29: swipeOffset stays within [-100, 0]; a release calls onDelete only if
\* the pointer is then more than 60 px left of where the drag started (so not
\* after the pointer came back to the start or right of it); and a card that
\* is back after its delete failed shows offset 0.
C29_SwipeSafety ==
    /\ [](card.swipeOffset \in (0 - SwipeLimit)..0)
    /\ [][ (Release /\ card'.emitted = "delete")
              => card.currentX - card.startX < 0 - SwipeThreshold ]_vars
    /\ [][ (card.emitted = "delete" /\ card'.emitted # "delete")
              => card'.swipeOffset = 0 ]_vars

\* ---- C27 ----

\* C27: the useAuth instances share the authentication state: the sign-in
\* that LoginScreen performs makes isAuthenticated of TodoApp true (TodoApp
\* leaves the login screen without a page load), and the sign-out that TodoApp
\* performs makes it false (TodoApp shows the login screen).
C27_AuthShared ==
    /\ [](auth.login => auth.app)
    /\ [][ (authUser = "" /\ authUser' # "") => auth'.app ]_vars
    /\ [][ (authUser # "" /\ authUser' = "") => ~auth'.app ]_vars

\* ---- C25 ----

\* the step in which the task screen handles the event e
Handled(e) == calls' = calls + 1 /\ event' = e

\* the list is being reloaded under the filters the hook now holds
ReloadedUnderFilters ==
    /\ queue' # <<>>
    /\ queue'[Len(queue')].k = "load"
    /\ queue'[Len(queue')].list = getTasks(storage', filters')

\* C25: clearing takes effect in the filters of the hook: after Clear in the
\* filter bar no status and no sortBy is set and the search is kept, after
\* "No sorting" no sortBy is set, after Clear Filters of the empty state the
\* filters are empty, and each time the list is reloaded under the resulting
\* filters.
C25_ClearingFilters ==
    [][ /\ Handled("clearFilters")
             => /\ filters'.status = "" /\ filters'.sortBy = ""
                /\ filters'.search = filters.search
                /\ ReloadedUnderFilters
        /\ Handled("handleSortChange(none)")
             => (filters'.sortBy = "" /\ ReloadedUnderFilters)
        /\ Handled("emptyStateClearFilters")
             => (filters' = NoFilters /\ ReloadedUnderFilters) ]_vars

\* ---- C26 ----

\* C26: whenever no operation is in flight the visible collection is
\* getTasks(current filters) of the stored collection, in the same order (so
\* after a create, update or toggle under an active filter or sort every
\* visible task satisfies the filter and the order is the sort order), and a
\* refresh does not change the visible collection.
C26_VisibleIsQuery ==
    /\ [](queue = <<>> => tasks = getTasks(storage, filters))
    /\ [][ (event = "onRefresh" /\ SettleStep("load")) => tasks' = tasks ]_vars

\* ---- C28 ----

\* the counts of the statistics that do not depend on the time of day
StatCounts(s) == <<s.total, s.completed, s.pending>>

\* C28: whenever the task list is on display and no operation is in flight,
\* the total, completed and pending counts TaskStats displays are those of
\* getTaskStats on the stored collection: they are recomputed after every
\* successful create, update, toggle and delete.
C28_StatsCurrent ==
    ListShown => StatCounts(shownStats) = StatCounts(getTaskStats(storage, now))

\* ---- C30 ----

\* the promise of a hook operation settles in this step
OperationSettles ==
    /\ queue # <<>>
    /\ Head(queue).hops = 0
    /\ queue' = Tail(queue)

\* C30: when a hook operation settles, error is set exactly if the operation
\* failed (a failure returns null or false with error set, a success returns
\* with error undefined), and TodoApp closes the task form exactly when the
\* operation it submitted succeeded.
C30_ErrorIffFailed ==
    [][ /\ OperationSettles => (error' # "" <=> ~settled'.ok)
        /\ (form.awaiting /\ ~form'.awaiting) => (form'.open <=> ~settled.ok) ]_vars

====
